---- MODULE Spec2Model ----
(***************************************************************************)
(* Model of the JumpCloud user-group resource of the Terraform provider    *)
(* (src/jumpcloud/resource_user_group.go): the CRUD handlers, the raw      *)
(* HTTP group read helper, the paginated listers and the membership        *)
(* reconciliation, run against a model of the remote JumpCloud store.      *)
(*                                                                         *)
(* Encoding.  User IDs, emails and group IDs are integers; the empty       *)
(* string identifier "" is 0.  User u has email EmailOf(u), chosen so that *)
(* the order by email differs from the order by ID.  A Go error is a       *)
(* sequence of strings, nil being <<>>; fmt.Errorf wrapping prepends its   *)
(* context string.  A *UserGroup is a sequence of at most one record, nil  *)
(* being <<>>.                                                             *)
(***************************************************************************)
EXTENDS Integers, Sequences, FiniteSets, TLC

VARIABLES
    users,      \* remote directory: the users are 1..users
    groups,     \* remote groups: group id -> member user IDs, in remote order
    nextGid,    \* id the remote gives to the next created group
    did,        \* d.Id() of the resource data, 0 when empty
    dmembers,   \* d.Get("members"): list of emails
    log,        \* remote calls issued by the last operation, in order
    last,       \* the last operation, its inputs and what it returned
    prior,      \* <<desired>> while the remote group is as the last successful
                \* update with that desired list left it, <<>> otherwise
    faultsLeft  \* re-runs of an update that can still meet a failing remote call

vars == <<users, groups, nextGid, did, dmembers, log, last, prior, faultsLeft>>

\* limit of every page request ("limit": int32(100))
PageLimit == 100
\* users of the directory in the resource life cycle
MaxUsers == 2
\* longest desired member list
MaxDesired == 2
\* largest remote collection the listers are run against
MaxItems == 205

Nil == <<>>

Min(a, b) == IF a < b THEN a ELSE b

SeqToSet(s) == {s[i] : i \in 1..Len(s)}

Contains(s, x) == \E i \in 1..Len(s) : s[i] = x

Wrap(ctx, e) == <<ctx>> \o e

(***************************************************************************)
(* The remote store.                                                       *)
(***************************************************************************)

\* email of user u; an involution, so it is also the user of an email
EmailOf(u) == IF u % 2 = 1 THEN u + 1 ELSE u - 1

UserOf(e) == IF e % 2 = 1 THEN e + 1 ELSE e - 1

\* one page of a remote result list: items skip+1 .. skip+limit
Page(coll, skip, limit) == SubSeq(coll, skip + 1, Min(skip + limit, Len(coll)))

\* GraphUserGroupMembersList: the members of the group in remote order
RemoteMembers(g, gid) == g[gid]

\* SystemusersList, filter _id:$in:ids, sort email: the matching users' emails
RemoteUsersByIds(n, ids) ==
    LET idset == SeqToSet(ids)
        byEmail == [e \in 1..(n + 1) |-> e]
    IN  SelectSeq(byEmail, LAMBDA e : UserOf(e) \in 1..n /\ UserOf(e) \in idset)

\* SystemusersList, filter email:$in:emails, sort _id: the matching users' IDs
RemoteUsersByEmails(n, emails) ==
    LET eset == SeqToSet(emails)
        byId == [u \in 1..n |-> u]
    IN  SelectSeq(byId, LAMBDA u : EmailOf(u) \in eset)

\* GraphUserGroupMembersPost op add / remove, applied to the remote group
RemoteManage(g, gid, uid, action) ==
    IF action = "add"
    THEN IF Contains(g[gid], uid) THEN g
         ELSE [g EXCEPT ![gid] = Append(@, uid)]
    ELSE [g EXCEPT ![gid] = SelectSeq(@, LAMBDA m : m # uid)]

(***************************************************************************)
(* Faults and the call log.                                                *)
(***************************************************************************)

NoFault == [at |-> 0, kind |-> "none"]

\* how a remote call fails: no answer, or an error status whose body is a
\* JSON object or is no JSON (the SDK calls return an error in all three)
FaultKinds == {"transport", "status_json", "status_text"}

\* the faults of a run whose fault-free calls are `calls`: none, or one at any
\* of these calls; only the raw GET tells the kinds of failure apart
FaultsOf(calls) ==
    {NoFault} \cup
    UNION {{[at |-> k, kind |-> kd] :
               kd \in IF calls[k].op = "GET" THEN FaultKinds ELSE {"transport"}} :
           k \in 1..Len(calls)}

\* the idx-th remote call of the operation fails
Fails(idx, fault) == fault.at = idx

\* the error an SDK call returns on a failed call
SdkErr(fault) == <<"remote call failed">>

\* a remote call in the log; status is the HTTP status of the raw GET's answer
\* (0 for no answer, and for the SDK calls, which hide it)
CallRec(op, arg, skip, limit, n, ok, status) ==
    [op |-> op, arg |-> arg, skip |-> skip, limit |-> limit, n |-> n, ok |-> ok,
     status |-> status]

Call(op, arg, skip, limit, n, ok) == CallRec(op, arg, skip, limit, n, ok, 0)

(***************************************************************************)
(* The paginated listers.  Each takes the number of remote calls the       *)
(* operation has issued before it (base) and the injected fault, and       *)
(* returns its result, its error and the calls it issued.                  *)
(***************************************************************************)

\* "skip": int32(i * 100)
SkipOf(i) == i * PageLimit

\* faulty variant: a full page ends the loop too
LastPageMutLe(page) == Len(page) <= PageLimit

\* if len(page) < 100 { break }
LastPage(page) == Len(page) < PageLimit

\* the error the membership listing call returns for a group the remote lacks
ListErr(g, gid, fault) == IF gid \in DOMAIN g THEN SdkErr(fault) ELSE <<"not_found">>

RECURSIVE GetMembersLoop(_, _, _, _, _, _, _)
GetMembersLoop(g, gid, i, userIds, calls, base, fault) ==
    IF Fails(base + i + 1, fault) \/ gid \notin DOMAIN g
    THEN [ret |-> Nil, err |-> ListErr(g, gid, fault),
          calls |-> Append(calls, Call("LIST", gid, SkipOf(i), PageLimit, 0, FALSE))]
    ELSE LET graphconnect == Page(RemoteMembers(g, gid), SkipOf(i), PageLimit)
             calls1 == Append(calls,
                 Call("LIST", gid, SkipOf(i), PageLimit, Len(graphconnect), TRUE))
         IN  IF LastPage(graphconnect)
             THEN [ret |-> userIds \o graphconnect, err |-> Nil, calls |-> calls1]
             ELSE GetMembersLoop(g, gid, i + 1, userIds \o graphconnect, calls1,
                                 base, fault)

getUserGroupMemberIDs(g, gid, base, fault) ==
    GetMembersLoop(g, gid, 0, <<>>, <<>>, base, fault)

\* faulty variant: the fetch's error returned as it is
IDsToEmailsErrMutVerbatim(e) == e

\* fmt.Errorf("error loading user emails from IDs: ... error:%s ...", err)
IDsToEmailsErr(e) == Wrap("error loading user emails from IDs", e)

RECURSIVE IDsToEmailsLoop(_, _, _, _, _, _, _)
IDsToEmailsLoop(n, userIDs, i, emails, calls, base, fault) ==
    IF Fails(base + i + 1, fault)
    THEN [ret |-> Nil, err |-> IDsToEmailsErr(SdkErr(fault)),
          calls |-> Append(calls,
              Call("SEARCH_ID", Len(userIDs), SkipOf(i), PageLimit, 0, FALSE))]
    ELSE LET results == Page(RemoteUsersByIds(n, userIDs), SkipOf(i), PageLimit)
             calls1 == Append(calls,
                 Call("SEARCH_ID", Len(userIDs), SkipOf(i), PageLimit, Len(results), TRUE))
         IN  IF LastPage(results)
             THEN [ret |-> emails \o results, err |-> Nil, calls |-> calls1]
             ELSE IDsToEmailsLoop(n, userIDs, i + 1, emails \o results, calls1,
                                  base, fault)

\* faulty variant: no early return on an empty list
userIDsToEmailsMutNoShortCircuit(n, userIDs, base, fault) ==
    IDsToEmailsLoop(n, userIDs, 0, <<>>, <<>>, base, fault)

userIDsToEmails(n, userIDs, base, fault) ==
    IF Len(userIDs) = 0
    THEN [ret |-> <<>>, err |-> Nil, calls |-> <<>>]
    ELSE IDsToEmailsLoop(n, userIDs, 0, <<>>, <<>>, base, fault)

\* fmt.Errorf("error loading user IDs from emails:%s; ...", err)
EmailsToIDsErr(e) == Wrap("error loading user IDs from emails", e)

RECURSIVE EmailsToIDsLoop(_, _, _, _, _, _, _)
EmailsToIDsLoop(n, userEmails, i, ids, calls, base, fault) ==
    IF Fails(base + i + 1, fault)
    THEN [ret |-> Nil, err |-> EmailsToIDsErr(SdkErr(fault)),
          calls |-> Append(calls,
              Call("SEARCH_EMAIL", Len(userEmails), SkipOf(i), PageLimit, 0, FALSE))]
    ELSE LET results == Page(RemoteUsersByEmails(n, userEmails), SkipOf(i), PageLimit)
             calls1 == Append(calls,
                 Call("SEARCH_EMAIL", Len(userEmails), SkipOf(i), PageLimit,
                      Len(results), TRUE))
         IN  IF LastPage(results)
             THEN [ret |-> ids \o results, err |-> Nil, calls |-> calls1]
             ELSE EmailsToIDsLoop(n, userEmails, i + 1, ids \o results, calls1,
                                  base, fault)

userEmailsToIDs(n, userEmails, base, fault) ==
    IF Len(userEmails) = 0
    THEN [ret |-> <<>>, err |-> Nil, calls |-> <<>>]
    ELSE EmailsToIDsLoop(n, userEmails, 0, <<>>, <<>>, base, fault)

(***************************************************************************)
(* userGroupReadHelper: the raw HTTP GET of a group.  An answer is the     *)
(* outcome of http.DefaultClient.Do: a transport failure, or a status and  *)
(* a body.  Bodies: "record" a JSON object carrying the group with its id, *)
(* "object" a JSON object without group fields ({} or an error message),   *)
(* "null" the JSON null, "text" no JSON at all, "empty" no bytes.          *)
(***************************************************************************)

StatusNotFound == 404

Statuses == {200, 201, 204, 400, 401, 403, 404, 500, 502, 503}

Bodies == {"record", "object", "null", "text", "empty"}

Answer(sent, status, body, gid) ==
    [sent |-> sent, status |-> status, body |-> body, gid |-> gid]

\* json.NewDecoder(res.Body).Decode(&ug) with ug a nil *UserGroup
JSONDecode(a) ==
    CASE a.body = "record" -> [ug |-> <<[ID |-> a.gid]>>, err |-> Nil]
      [] a.body = "object" -> [ug |-> <<[ID |-> 0]>>, err |-> Nil]
      [] a.body = "null"   -> [ug |-> Nil, err |-> Nil]
      [] a.body = "text"   -> [ug |-> Nil, err |-> <<"json: invalid character">>]
      [] OTHER             -> [ug |-> Nil, err |-> <<"EOF">>]

\* faulty variant: the status is not looked at
userGroupReadHelperMutNoStatus(a) ==
    IF ~a.sent
    THEN [ug |-> Nil, ok |-> FALSE, err |-> <<"transport">>]
    ELSE [ug |-> JSONDecode(a).ug, ok |-> TRUE, err |-> JSONDecode(a).err]

userGroupReadHelper(a) ==
    IF ~a.sent
    THEN [ug |-> Nil, ok |-> FALSE, err |-> <<"transport">>]
    ELSE IF a.status = StatusNotFound
    THEN [ug |-> Nil, ok |-> FALSE, err |-> Nil]
    ELSE [ug |-> JSONDecode(a).ug, ok |-> TRUE, err |-> JSONDecode(a).err]


(***************************************************************************)
(* The resource handlers.  A handler takes the remote store and the        *)
(* resource data it is entered with and returns what it leaves behind:     *)
(* the remote groups, the next group id, d.Id(), d's members, its error,   *)
(* the calls it issued and (create, update) the old and new member IDs.    *)
(***************************************************************************)

Result(g, ngid, id, members, err, calls, old, new) ==
    [groups |-> g, nextGid |-> ngid, did |-> id, dmembers |-> members,
     err |-> err, calls |-> calls, old |-> old, new |-> new]

\* the answer of the remote to GET /usergroups/<gid>, the idx-th call
RemoteGet(g, gid, idx, fault) ==
    IF Fails(idx, fault)
    THEN CASE fault.kind = "transport"   -> Answer(FALSE, 0, "empty", 0)
           [] fault.kind = "status_json" -> Answer(TRUE, 500, "object", 0)
           [] OTHER                      -> Answer(TRUE, 500, "text", 0)
    ELSE IF gid \in DOMAIN g
    THEN Answer(TRUE, 200, "record", gid)
    ELSE Answer(TRUE, StatusNotFound, "text", 0)

GetCall(gid, a) ==
    CallRec("GET", gid, 0, 0, 0, a.sent /\ a.status = 200,
            IF a.sent THEN a.status ELSE 0)

\* faulty variant: the call's error is dropped
manageGroupMemberMutSwallow(g, gid, memberID, action, idx, fault) ==
    IF Fails(idx, fault) \/ gid \notin DOMAIN g
    THEN [groups |-> g, err |-> Nil, call |-> Call(action, memberID, 0, 0, 0, FALSE)]
    ELSE [groups |-> RemoteManage(g, gid, memberID, action), err |-> Nil,
          call |-> Call(action, memberID, 0, 0, 0, TRUE)]

\* manageGroupMember: one GraphUserGroupMembersPost, the idx-th call
manageGroupMember(g, gid, memberID, action, idx, fault) ==
    IF Fails(idx, fault) \/ gid \notin DOMAIN g
    THEN [groups |-> g,
          err |-> Wrap("error managing group member", ListErr(g, gid, fault)),
          call |-> Call(action, memberID, 0, 0, 0, FALSE)]
    ELSE [groups |-> RemoteManage(g, gid, memberID, action), err |-> Nil,
          call |-> Call(action, memberID, 0, 0, 0, TRUE)]

\* the member loops of create and update: muts[k..] applied one call each,
\* stopping at the first error
RECURSIVE ManageAll(_, _, _, _, _, _, _)
ManageAll(g, gid, muts, k, calls, base, fault) ==
    IF k > Len(muts)
    THEN [groups |-> g, err |-> Nil, calls |-> calls]
    ELSE LET r == manageGroupMember(g, gid, muts[k].id, muts[k].action,
                                    base + k, fault)
         IN  IF r.err # Nil
             THEN [groups |-> g, err |-> r.err, calls |-> Append(calls, r.call)]
             ELSE ManageAll(r.groups, gid, muts, k + 1, Append(calls, r.call),
                            base, fault)

Mut(id, action) == [id |-> id, action |-> action]

\* faulty variant: every new ID is added, member already or not
ToAddMutAll(old, new) == new

\* for _, id := range new { if !slices.Contains(old, id) { add } }
ToAdd(old, new) == SelectSeq(new, LAMBDA x : ~Contains(old, x))

\* faulty variant: nothing is removed
ToRemoveMutNone(old, new) == <<>>

\* for _, id := range old { if !slices.Contains(new, id) { remove } }
ToRemove(old, new) == SelectSeq(old, LAMBDA x : ~Contains(new, x))

\* faulty variant: the remove loop before the add loop
MutationsMutRemoveFirst(old, new) ==
    [k \in 1..Len(ToRemove(old, new)) |-> Mut(ToRemove(old, new)[k], "remove")]
    \o [k \in 1..Len(ToAdd(old, new)) |-> Mut(ToAdd(old, new)[k], "add")]

\* the calls of the add loop, then those of the remove loop
Mutations(old, new) ==
    [k \in 1..Len(ToAdd(old, new)) |-> Mut(ToAdd(old, new)[k], "add")]
    \o [k \in 1..Len(ToRemove(old, new)) |-> Mut(ToRemove(old, new)[k], "remove")]

\* faulty variant: the members are not stored
SetMembersMutKeep(members, memberEmails) == members

\* d.Set("members", memberEmails)
SetMembers(members, memberEmails) == memberEmails

resourceUserGroupRead(n, g, ngid, id, members, base, fault) ==
    LET a  == RemoteGet(g, id, base + 1, fault)
        h  == userGroupReadHelper(a)
        c1 == <<GetCall(id, a)>>
    IN  IF h.err # Nil
        THEN Result(g, ngid, id, members, h.err, c1, <<>>, <<>>)
        ELSE IF ~h.ok
        THEN Result(g, ngid, 0, members, Nil, c1, <<>>, <<>>)
        ELSE IF h.ug = Nil
        THEN Result(g, ngid, id, members, <<"panic: nil pointer dereference">>,
                    c1, <<>>, <<>>)
        ELSE LET id1 == h.ug[1].ID
                 m   == getUserGroupMemberIDs(g, id1, base + 1, fault)
                 c2  == c1 \o m.calls
             IN  IF m.err # Nil
                 THEN Result(g, ngid, id1, members, m.err, c2, <<>>, <<>>)
                 ELSE LET t == userIDsToEmails(n, m.ret, base + Len(c2), fault)
                      IN  IF t.err # Nil
                          THEN Result(g, ngid, id1, members, t.err,
                                      c2 \o t.calls, <<>>, <<>>)
                          ELSE Result(g, ngid, id1, SetMembers(members, t.ret), Nil,
                                      c2 \o t.calls, <<>>, <<>>)

\* the tail of create and update: return resourceUserGroupRead(d, m)
FinalRead(n, g, ngid, id, members, calls, old, new, fault) ==
    LET r == resourceUserGroupRead(n, g, ngid, id, members, Len(calls), fault)
    IN  Result(r.groups, r.nextGid, r.did, r.dmembers, r.err, calls \o r.calls,
               old, new)

\* faulty variant: the identifier set only once the members are added
resourceUserGroupCreateMutLateSetId(n, g, ngid, desired, fault) ==
    IF Fails(1, fault)
    THEN Result(g, ngid, 0, desired, Wrap("error creating user group", SdkErr(fault)),
                <<Call("POST", 0, 0, 0, 0, FALSE)>>, <<>>, <<>>)
    ELSE LET g1 == g @@ (ngid :> <<>>)
             c1 == <<Call("POST", ngid, 0, 0, 0, TRUE)>>
             t  == userEmailsToIDs(n, desired, 1, fault)
             c2 == c1 \o t.calls
         IN  IF t.err # Nil
             THEN Result(g1, ngid + 1, 0, desired, t.err, c2, <<>>, <<>>)
             ELSE LET muts == [k \in 1..Len(t.ret) |-> Mut(t.ret[k], "add")]
                      a == ManageAll(g1, ngid, muts, 1, <<>>, Len(c2), fault)
                      c3 == c2 \o a.calls
                  IN  IF a.err # Nil
                      THEN Result(a.groups, ngid + 1, 0, desired, a.err, c3,
                                  <<>>, t.ret)
                      ELSE FinalRead(n, a.groups, ngid + 1, ngid, desired, c3,
                                     <<>>, t.ret, fault)

resourceUserGroupCreate(n, g, ngid, desired, fault) ==
    IF Fails(1, fault)
    THEN Result(g, ngid, 0, desired, Wrap("error creating user group", SdkErr(fault)),
                <<Call("POST", 0, 0, 0, 0, FALSE)>>, <<>>, <<>>)
    ELSE LET g1 == g @@ (ngid :> <<>>)
             c1 == <<Call("POST", ngid, 0, 0, 0, TRUE)>>
             t  == userEmailsToIDs(n, desired, 1, fault)
             c2 == c1 \o t.calls
         IN  IF t.err # Nil
             THEN Result(g1, ngid + 1, ngid, desired, t.err, c2, <<>>, <<>>)
             ELSE LET muts == [k \in 1..Len(t.ret) |-> Mut(t.ret[k], "add")]
                      a == ManageAll(g1, ngid, muts, 1, <<>>, Len(c2), fault)
                      c3 == c2 \o a.calls
                  IN  IF a.err # Nil
                      THEN Result(a.groups, ngid + 1, ngid, desired, a.err, c3,
                                  <<>>, t.ret)
                      ELSE FinalRead(n, a.groups, ngid + 1, ngid, desired, c3,
                                     <<>>, t.ret, fault)

resourceUserGroupUpdate(n, g, ngid, id, desired, attrsOK, fault) ==
    IF ~attrsOK
    THEN Result(g, ngid, id, desired,
                <<"unable to update, attributes not expandable">>, <<>>, <<>>, <<>>)
    ELSE IF Fails(1, fault) \/ id \notin DOMAIN g
    THEN Result(g, ngid, id, desired,
                Wrap("error deleting user group", ListErr(g, id, fault)),
                <<Call("PATCH", id, 0, 0, 0, FALSE)>>, <<>>, <<>>)
    ELSE LET c1 == <<Call("PATCH", id, 0, 0, 0, TRUE)>>
             o  == getUserGroupMemberIDs(g, id, 1, fault)
             c2 == c1 \o o.calls
         IN  IF o.err # Nil
             THEN Result(g, ngid, id, desired, o.err, c2, <<>>, <<>>)
             ELSE LET t  == userEmailsToIDs(n, desired, Len(c2), fault)
                      c3 == c2 \o t.calls
                  IN  IF t.err # Nil
                      THEN Result(g, ngid, id, desired, t.err, c3, o.ret, <<>>)
                      ELSE LET a == ManageAll(g, id, Mutations(o.ret, t.ret), 1,
                                              <<>>, Len(c3), fault)
                               c4 == c3 \o a.calls
                           IN  IF a.err # Nil
                               THEN Result(a.groups, ngid, id, desired, a.err, c4,
                                           o.ret, t.ret)
                               ELSE FinalRead(n, a.groups, ngid, id, desired, c4,
                                              o.ret, t.ret, fault)

resourceUserGroupDelete(n, g, ngid, id, members, fault) ==
    IF Fails(1, fault) \/ id \notin DOMAIN g
    THEN Result(g, ngid, id, members,
                Wrap("error deleting user group", ListErr(g, id, fault)),
                <<Call("DELETE", id, 0, 0, 0, FALSE)>>, <<>>, <<>>)
    ELSE Result([x \in DOMAIN g \ {id} |-> g[x]], ngid, 0, members, Nil,
                <<Call("DELETE", id, 0, 0, 0, TRUE)>>, <<>>, <<>>)


(***************************************************************************)
(* The life cycle of one resource instance.  Terraform calls one handler   *)
(* at a time on the resource data; when the handler has returned, only the *)
(* resource data is kept (Return); other parties change the remote group   *)
(* between two operations.                                                 *)
(***************************************************************************)

NoAnswer == Answer(FALSE, 0, "empty", 0)

MkLast(op, arg, ans, err, old, new, ret, ok, ug, rerun) ==
    [op |-> op, arg |-> arg, ans |-> ans, err |-> err, old |-> old, new |-> new,
     ret |-> ret, ok |-> ok, ug |-> ug, rerun |-> rerun]

NoLast(op) == MkLast(op, <<>>, NoAnswer, Nil, <<>>, <<>>, <<>>, FALSE, Nil, FALSE)

\* the emails a configuration can name: those of the users and one of no user
Emails == 1..(MaxUsers + 1)

\* the desired member lists of a configuration: up to MaxDesired different
\* emails in any order, or one email twice
Desired ==
    UNION {{s \in [1..k -> Emails] : \A i, j \in 1..k : i # j => s[i] # s[j]} :
           k \in 0..MaxDesired}
    \cup {<<e, e>> : e \in Emails}

Idle == last.op \in {"init", "idle"}

\* the handler's outcome r becomes the next state
Apply(op, desired, r, rerun) ==
    /\ groups' = r.groups
    /\ nextGid' = r.nextGid
    /\ did' = r.did
    /\ dmembers' = r.dmembers
    /\ log' = r.calls
    /\ last' = MkLast(op, desired, NoAnswer, r.err, r.old, r.new, <<>>, FALSE, Nil,
                      rerun)
    /\ UNCHANGED users

Init ==
    /\ users = MaxUsers
    /\ groups = <<>>
    /\ nextGid = 1
    /\ did = 0
    /\ dmembers = <<>>
    /\ log = <<>>
    /\ last = NoLast("init")
    /\ prior = <<>>
    /\ faultsLeft = 0

\* Terraform creates a resource instance once
Create ==
    /\ Idle
    /\ did = 0
    /\ nextGid = 1
    /\ \E desired \in Desired :
          \E fault \in FaultsOf(resourceUserGroupCreate(users, groups, nextGid,
                                    desired, NoFault).calls) :
             Apply("create", desired,
                   resourceUserGroupCreate(users, groups, nextGid, desired, fault),
                   FALSE)
    /\ prior' = <<>>
    /\ UNCHANGED faultsLeft

Read ==
    /\ Idle
    /\ did # 0
    /\ \E fault \in FaultsOf(resourceUserGroupRead(users, groups, nextGid, did,
                                 dmembers, 0, NoFault).calls) :
          Apply("read", <<>>,
                resourceUserGroupRead(users, groups, nextGid, did, dmembers, 0, fault),
                FALSE)
    /\ prior' = prior
    /\ UNCHANGED faultsLeft

Update ==
    /\ Idle
    /\ did # 0
    /\ \E desired \in Desired, attrsOK \in BOOLEAN :
          \E fault \in IF attrsOK
                       THEN FaultsOf(resourceUserGroupUpdate(users, groups, nextGid,
                                         did, desired, TRUE, NoFault).calls)
                       ELSE {NoFault} :
             LET r == resourceUserGroupUpdate(users, groups, nextGid, did, desired,
                                              attrsOK, fault)
             IN  /\ Apply("update", desired, r, prior = <<desired>>)
                 /\ prior' = IF r.err = Nil THEN <<desired>> ELSE <<>>
    /\ UNCHANGED faultsLeft

Delete ==
    /\ Idle
    /\ did # 0
    /\ \E fault \in FaultsOf(resourceUserGroupDelete(users, groups, nextGid, did,
                                 dmembers, NoFault).calls) :
          LET r == resourceUserGroupDelete(users, groups, nextGid, did, dmembers, fault)
          IN  /\ Apply("delete", <<>>, r, FALSE)
              /\ prior' = IF r.groups = groups THEN prior ELSE <<>>
    /\ UNCHANGED faultsLeft

\* schema.ImportStatePassthrough: the identifier is whatever the user gives,
\* the id of a group the remote has, had or never had
Import ==
    /\ Idle
    /\ did = 0
    /\ \E id \in 1..nextGid :
          /\ did' = id
          /\ dmembers' = <<>>
    /\ log' = <<>>
    /\ last' = NoLast("import")
    /\ prior' = <<>>
    /\ UNCHANGED <<users, groups, nextGid, faultsLeft>>

\* the handler has returned: its calls and its return value are gone
Return ==
    /\ ~Idle
    /\ log' = <<>>
    /\ last' = NoLast("idle")
    /\ UNCHANGED <<users, groups, nextGid, did, dmembers, prior, faultsLeft>>

External(g) ==
    /\ Idle
    /\ groups' = g
    /\ log' = <<>>
    /\ last' = NoLast("external")
    /\ prior' = <<>>
    /\ UNCHANGED <<users, nextGid, did, dmembers, faultsLeft>>

\* a member added outside the provider
ExtAdd ==
    \E gid \in DOMAIN groups, u \in 1..users :
        /\ ~Contains(groups[gid], u)
        /\ External(RemoteManage(groups, gid, u, "add"))

\* a member removed outside the provider
ExtRemove ==
    \E gid \in DOMAIN groups, u \in 1..users :
        /\ Contains(groups[gid], u)
        /\ External(RemoteManage(groups, gid, u, "remove"))

\* the group deleted outside the provider
ExtDelete ==
    \E gid \in DOMAIN groups :
        External([x \in DOMAIN groups \ {gid} |-> groups[x]])

Next ==
    \/ Create
    \/ Read
    \/ Update
    \/ Delete
    \/ Import
    \/ Return
    \/ ExtAdd
    \/ ExtRemove
    \/ ExtDelete

Spec == Init /\ [][Next]_vars

(***************************************************************************)
(* The helpers on their own: a remote group of n members out of a          *)
(* directory of n users, n up to MaxItems, and one call of a lister or of  *)
(* userGroupReadHelper.                                                    *)
(***************************************************************************)

\* the members in an order that is neither by ID nor by email
Rot(n) == [i \in 1..n |-> (i % n) + 1]

EmailsOf(ids) == [i \in 1..Len(ids) |-> EmailOf(ids[i])]

Answers ==
    {NoAnswer} \cup {Answer(TRUE, s, b, 1) : s \in Statuses, b \in Bodies}

InitH ==
    /\ users \in 0..MaxItems
    /\ groups = (1 :> Rot(users))
    /\ nextGid = 2
    /\ did = 1
    /\ dmembers = <<>>
    /\ log = <<>>
    /\ last = NoLast("init")
    /\ prior = <<>>
    /\ faultsLeft = 0

Returned(op, arg, r) ==
    /\ last' = MkLast(op, arg, NoAnswer, r.err, <<>>, <<>>, r.ret, FALSE, Nil, FALSE)
    /\ log' = r.calls
    /\ UNCHANGED <<users, groups, nextGid, did, dmembers, prior, faultsLeft>>

HGetMembers ==
    /\ last.op = "init"
    /\ \E fault \in FaultsOf(getUserGroupMemberIDs(groups, did, 0, NoFault).calls) :
          Returned("getUserGroupMemberIDs", <<>>,
                   getUserGroupMemberIDs(groups, did, 0, fault))

HIDsToEmails ==
    /\ last.op = "init"
    /\ \E fault \in FaultsOf(userIDsToEmails(users, groups[did], 0, NoFault).calls) :
          Returned("userIDsToEmails", groups[did],
                   userIDsToEmails(users, groups[did], 0, fault))

HEmailsToIDs ==
    /\ last.op = "init"
    /\ \E fault \in FaultsOf(userEmailsToIDs(users, EmailsOf(groups[did]), 0,
                                 NoFault).calls) :
          Returned("userEmailsToIDs", EmailsOf(groups[did]),
                   userEmailsToIDs(users, EmailsOf(groups[did]), 0, fault))

HReadHelper ==
    /\ last.op = "init"
    /\ \E a \in Answers :
          LET h == userGroupReadHelper(a)
          IN  last' = MkLast("userGroupReadHelper", <<>>, a, h.err, <<>>, <<>>,
                             <<>>, h.ok, h.ug, FALSE)
    /\ UNCHANGED <<users, groups, nextGid, did, dmembers, log, prior, faultsLeft>>

NextH ==
    \/ HGetMembers
    \/ HIDsToEmails
    \/ HEmailsToIDs
    \/ HReadHelper

SpecH == InitH /\ [][NextH]_vars

(***************************************************************************)
(* Re-running a failed update.  An update of group 1 has met a failing     *)
(* remote call and has returned its error; the caller runs                 *)
(* resourceUserGroupUpdate again with the same desired list until a run    *)
(* returns no error, and nothing else touches the group.  At most          *)
(* MaxFaults of the re-runs meet a failing call: after them the remote     *)
(* calls no longer fail.                                                   *)
(***************************************************************************)

\* re-runs that can meet a failing remote call
MaxFaults == 2

\* the member lists the remote can hold: different users in any order
Memberships ==
    UNION {{s \in [1..k -> 1..MaxUsers] : \A i, j \in 1..k : i # j => s[i] # s[j]} :
           k \in 0..MaxUsers}

\* the most remote calls one update issues here, and the faults of a run
MaxCalls == MaxUsers + 6

Faults ==
    {NoFault} \cup {[at |-> k, kind |-> kd] : k \in 1..MaxCalls, kd \in FaultKinds}

\* resourceUserGroupUpdate run with identifier id on a remote whose only group
\* is group 1, for every membership of the group, desired list and fault
UpdateRuns(id) ==
    [run \in Memberships \X {id} \X Desired \X Faults |->
        resourceUserGroupUpdate(MaxUsers, (1 :> run[1]), 2, id, run[3], TRUE, run[4])]

\* the runs with the identifier of group 1 and those with the empty identifier
UpdateOf == UpdateRuns(1) @@ UpdateRuns(0)

\* the faults a run can meet: one at any call of the fault-free run
RunFaults(m, id, desired) == FaultsOf(UpdateOf[<<m, id, desired, NoFault>>].calls)

InitR ==
    \E m0 \in Memberships, desired \in Desired :
       \E fault \in RunFaults(m0, 1, desired) :
          \E r \in {UpdateOf[<<m0, 1, desired, fault>>]} :
              /\ r.err # Nil
              /\ users = MaxUsers
              /\ groups = r.groups
              /\ nextGid = r.nextGid
              /\ did = r.did
              /\ dmembers = r.dmembers
              /\ log = r.calls
              /\ last = MkLast("update", desired, NoAnswer, r.err, r.old, r.new,
                               <<>>, FALSE, Nil, FALSE)
              /\ prior = <<>>
              /\ faultsLeft = MaxFaults

\* the caller runs the update again, with the desired list of the failed run
Rerun ==
    /\ last.op = "update"
    /\ last.err # Nil
    /\ \E fault \in IF faultsLeft > 0 THEN RunFaults(groups[1], did, last.arg)
                    ELSE {NoFault} :
          \E r \in {UpdateOf[<<groups[1], did, last.arg, fault>>]} :
             /\ Apply("update", last.arg, r, TRUE)
             /\ faultsLeft' = IF fault = NoFault THEN faultsLeft ELSE faultsLeft - 1
    /\ UNCHANGED prior

NextR == Rerun

\* the caller keeps re-running: a re-run that can be made is made
SpecR == InitR /\ [][NextR]_vars /\ WF_vars(Rerun)

(***************************************************************************)
(* Properties.                                                             *)
(***************************************************************************)

Succeeded(ops) == last.op \in ops /\ last.err = Nil

IsMutation(c) == c.op \in {"add", "remove"}

MutationCalls(l) == SelectSeq(l, IsMutation)

\* the ascending sequence of a finite set of integers
RECURSIVE SortedSeq(_)
SortedSeq(S) ==
    IF S = {} THEN <<>>
    ELSE LET m == CHOOSE x \in S : \A y \in S : x <= y
         IN  <<m>> \o SortedSeq(S \ {m})

\* C1: at the end of every successful create and every successful update,
\* d's members are exactly the emails userIDsToEmails gives for the member IDs
\* getUserGroupMemberIDs lists for the remote group at that moment: the emails
\* of the group's members, none missing and none extra.
C1_MembersMirrorRemote ==
    Succeeded({"create", "update"}) =>
        /\ did \in DOMAIN groups
        /\ dmembers = userIDsToEmails(users,
               getUserGroupMemberIDs(groups, did, 0, NoFault).ret, 0, NoFault).ret
        /\ dmembers = SortedSeq({EmailOf(u) : u \in SeqToSet(groups[did])})

C1_Witness ==
    /\ Succeeded({"update"})
    /\ Len(dmembers) = 2
    /\ dmembers # last.arg

\* C2: after a successful create or update, whatever the remote membership was
\* before, the remote member set is exactly the set of user IDs userEmailsToIDs
\* returns for the desired emails.
C2_RemoteEqualsDesired ==
    Succeeded({"create", "update"}) =>
        /\ did \in DOMAIN groups
        /\ last.new = userEmailsToIDs(users, last.arg, 0, NoFault).ret
        /\ SeqToSet(groups[did]) = SeqToSet(last.new)
        /\ SeqToSet(groups[did]) = {u \in 1..users : EmailOf(u) \in SeqToSet(last.arg)}

C2_Witness ==
    /\ Succeeded({"update"})
    /\ \E u \in SeqToSet(last.old) : u \notin SeqToSet(last.new)
    /\ \E u \in SeqToSet(last.new) : u \notin SeqToSet(last.old)
    /\ \E e \in SeqToSet(last.arg) : UserOf(e) \notin 1..users

\* C3: an update that succeeds with the desired list of the successful update
\* before it, the remote group unchanged in between, computes nothing to add
\* and nothing to remove: it issues no add call and no remove call.
C3_SecondRunIssuesNoMutation ==
    (Succeeded({"update"}) /\ last.rerun) =>
        /\ MutationCalls(log) = <<>>
        /\ \A u \in SeqToSet(last.new) : Contains(last.old, u)
        /\ \A u \in SeqToSet(last.old) : Contains(last.new, u)

C3_Witness ==
    /\ Succeeded({"update"})
    /\ last.rerun
    /\ Len(last.new) = 2
    /\ Len(log) > 3


Answered(status) == last.ans.sent /\ last.ans.status = status

\* C4, as stated: userGroupReadHelper returns ok=false exactly when the remote
\* answers HTTP 404.
C4_OkFalseExactlyOn404 ==
    last.op = "userGroupReadHelper" => (last.ok = FALSE <=> Answered(404))

\* C4, amended: when the remote answers, ok=false exactly when the answer is a
\* 404, with a nil record and a nil error whatever the body; a 200 with body {}
\* gives a non-nil default record, ok=true and a nil error; every other status
\* gives ok=true, with an error exactly when decoding the body fails; when the
\* request gets no answer, the record is nil, ok=false and the error is set.
C4_ReadHelperOutcomes ==
    last.op = "userGroupReadHelper" =>
        /\ last.ans.sent => (last.ok = FALSE <=> last.ans.status = 404)
        /\ Answered(404) => last.ug = Nil /\ last.err = Nil
        /\ (Answered(200) /\ last.ans.body = "object") =>
               last.ug = <<[ID |-> 0]>> /\ last.ok /\ last.err = Nil
        /\ (last.ans.sent /\ last.ans.status # 404) =>
               /\ last.ok
               /\ last.err # Nil <=> last.ans.body \in {"text", "empty"}
        /\ ~last.ans.sent => last.ug = Nil /\ ~last.ok /\ last.err # Nil

C4_Witness ==
    /\ last.op = "userGroupReadHelper"
    /\ Answered(404)
    /\ last.ans.body = "record"
    /\ ~last.ok

\* C5: the identifier of a resource that has one becomes empty only through a
\* read the remote answers with a 404, which returns no error, or through a
\* delete whose remote call succeeds: a read answered otherwise and a delete
\* whose call fails leave the identifier set.
C5_IdClearedOnlyBy404OrDelete ==
    /\ (last.op = "read" /\ did = 0) => (log[1].status = 404 /\ last.err = Nil)
    /\ (last.op = "read" /\ log[1].status # 404) => did # 0
    /\ (last.op = "delete" /\ did = 0) => log[1].ok
    /\ (last.op = "delete" /\ ~log[1].ok) => did # 0

Listers == {"getUserGroupMemberIDs", "userIDsToEmails", "userEmailsToIDs"}

\* the remote collection a lister was run against, in remote order
Collection ==
    CASE last.op = "getUserGroupMemberIDs" -> RemoteMembers(groups, did)
      [] last.op = "userIDsToEmails" -> RemoteUsersByIds(users, last.arg)
      [] OTHER -> RemoteUsersByEmails(users, last.arg)

\* the fetches of the log are pages of 100 at skip 0, 100, 200, ...; all but
\* the last succeeded and were full
PagesInOrder ==
    \A k \in 1..Len(log) :
        /\ log[k].limit = 100
        /\ log[k].skip = 100 * (k - 1)
        /\ k < Len(log) => (log[k].ok /\ log[k].n = 100)

\* C6, as stated: with no fetch failing, each lister requests pages of 100 at
\* skip 0, 100, 200, ..., stops after the first page of fewer than 100 items,
\* returns the n items of the remote collection once each in remote order, and
\* makes floor(n/100)+1 fetches.
C6_PaginationComplete ==
    (last.op \in Listers /\ last.err = Nil) =>
        /\ last.ret = Collection
        /\ PagesInOrder
        /\ Len(log) = (Len(Collection) \div 100) + 1
        /\ log[Len(log)].ok /\ log[Len(log)].n < 100

\* C6, amended: the same, for getUserGroupMemberIDs always and for the two
\* translators when their input list is not empty; a translator given an empty
\* list makes no fetch and returns nothing.
C6_PaginationCompleteUnlessEmptyInput ==
    (last.op \in Listers /\ last.err = Nil) =>
        /\ last.ret = Collection
        /\ PagesInOrder
        /\ IF last.op # "getUserGroupMemberIDs" /\ last.arg = <<>>
           THEN log = <<>>
           ELSE /\ Len(log) = (Len(Collection) \div 100) + 1
                /\ log[Len(log)].ok /\ log[Len(log)].n < 100

C6_Witness ==
    /\ last.op = "userIDsToEmails"
    /\ last.err = Nil
    /\ Len(last.ret) = 200
    /\ Len(log) = 3
    /\ log[3].n = 0

\* C7: userIDsToEmails and userEmailsToIDs given an empty list return an empty
\* result and a nil error without any remote call, whatever the remote would do;
\* so a read of a group without members issues no user search, and neither does
\* a create or an update with an empty desired list.
C7_EmptyInputNoRemoteCall ==
    /\ \A f \in {NoFault, [at |-> 1, kind |-> "transport"]} :
          /\ userIDsToEmails(users, <<>>, 0, f) =
                 [ret |-> <<>>, err |-> Nil, calls |-> <<>>]
          /\ userEmailsToIDs(users, <<>>, 0, f) =
                 [ret |-> <<>>, err |-> Nil, calls |-> <<>>]
    /\ (Succeeded({"read"}) /\ did \in DOMAIN groups /\ groups[did] = <<>>) =>
          /\ \A k \in 1..Len(log) : log[k].op \notin {"SEARCH_ID", "SEARCH_EMAIL"}
          /\ dmembers = <<>>
    /\ (last.op \in {"create", "update"} /\ last.arg = <<>>) =>
          /\ \A k \in 1..Len(log) : log[k].op \notin {"SEARCH_ID", "SEARCH_EMAIL"}
          /\ last.new = <<>>

C7_Witness ==
    /\ Succeeded({"update"})
    /\ last.arg = <<>>
    /\ Len(last.old) = 2
    /\ log[Len(log)].op = "LIST"

FetchErr == <<"remote call failed">>

\* a failed fetch is the last fetch, and nothing is returned
FailedFetchEndsLister ==
    /\ PagesInOrder
    /\ ~log[Len(log)].ok
    /\ last.ret = <<>>

\* C8, as stated: when a page fetch fails, a lister issues no further fetch,
\* returns no items and returns the very error the failed fetch produced.
C8_FirstErrorVerbatim ==
    (last.op \in Listers /\ last.err # Nil) =>
        /\ FailedFetchEndsLister
        /\ last.err = FetchErr

\* C8, amended: when a page fetch fails, a lister issues no further fetch and
\* returns no items; getUserGroupMemberIDs returns the fetch's error as it is,
\* userIDsToEmails and userEmailsToIDs return a new error that wraps it in the
\* name of the translation.
C8_FirstErrorEndsLister ==
    (last.op \in Listers /\ last.err # Nil) =>
        /\ FailedFetchEndsLister
        /\ last.op = "getUserGroupMemberIDs" => last.err = FetchErr
        /\ last.op = "userIDsToEmails" =>
               last.err = <<"error loading user emails from IDs">> \o FetchErr
        /\ last.op = "userEmailsToIDs" =>
               last.err = <<"error loading user IDs from emails">> \o FetchErr

C8_Witness ==
    /\ last.op = "userEmailsToIDs"
    /\ last.err # Nil
    /\ Len(log) = 3
    /\ users > 200

\* the positions of the log that hold a call of the given kinds
Positions(ops) == {k \in 1..Len(log) : log[k].op \in ops}

\* C9: an update in which no call fails issues exactly one add per ID of
\* newMemberIDs not in oldMemberIDs, in newMemberIDs order, then one remove per
\* ID of oldMemberIDs not in newMemberIDs, in oldMemberIDs order; all of them
\* after the patch call and before the final read.
C9_MutationCallsInOrder ==
    Succeeded({"update"}) =>
        LET adds == SelectSeq(last.new, LAMBDA u : u \notin SeqToSet(last.old))
            rems == SelectSeq(last.old, LAMBDA u : u \notin SeqToSet(last.new))
            muts == MutationCalls(log)
        IN  /\ Len(muts) = Len(adds) + Len(rems)
            /\ \A k \in 1..Len(adds) :
                  muts[k].op = "add" /\ muts[k].arg = adds[k] /\ muts[k].ok
            /\ \A k \in 1..Len(rems) :
                  /\ muts[Len(adds) + k].op = "remove"
                  /\ muts[Len(adds) + k].arg = rems[k]
                  /\ muts[Len(adds) + k].ok
            /\ Positions({"PATCH"}) = {1}
            /\ Cardinality(Positions({"GET"})) = 1
            /\ \A k \in Positions({"add", "remove"}) :
                  \A p \in Positions({"PATCH"}), r \in Positions({"GET"}) :
                      p < k /\ k < r

C9_Witness ==
    /\ Succeeded({"update"})
    /\ Cardinality(Positions({"add"})) = 1
    /\ Cardinality(Positions({"remove"})) = 1

\* the remote members after the calls l have been applied to members m
RECURSIVE AfterCalls(_, _)
AfterCalls(m, l) ==
    IF l = <<>> THEN m
    ELSE AfterCalls(IF ~l[1].ok THEN m
                    ELSE IF l[1].op = "add" THEN Append(m, l[1].arg)
                    ELSE SelectSeq(m, LAMBDA u : u # l[1].arg),
                    Tail(l))

\* C10: when a membership call of a create or an update fails, the operation
\* returns that call's error at once: the failed call is its last remote call
\* (no further add or remove, no final read), the calls that succeeded before
\* it stay applied in the remote group, and d's members are not refreshed.
C10_PartialFailureLeftAsIs ==
    (last.op \in {"create", "update"}
       /\ \E k \in Positions({"add", "remove"}) : ~log[k].ok) =>
        /\ \A k \in Positions({"add", "remove"}) : ~log[k].ok <=> k = Len(log)
        /\ last.err = <<"error managing group member">> \o FetchErr
        /\ did \in DOMAIN groups
        /\ groups[did] = AfterCalls(last.old, MutationCalls(log))
        /\ Positions({"GET"}) = {}
        /\ dmembers = last.arg

C10_Witness ==
    /\ last.op = "update"
    /\ last.err # Nil
    /\ Len(MutationCalls(log)) = 2
    /\ MutationCalls(log)[1].op = "add"
    /\ MutationCalls(log)[2].op = "remove"
    /\ ~log[Len(log)].ok
    /\ Len(groups[did]) = 2


\* the IDs the desired emails translate to
DesiredIDs(desired) == SeqToSet(userEmailsToIDs(users, desired, 0, NoFault).ret)

\* a re-run has returned no error and the remote members are the desired ones
Converged ==
    /\ Succeeded({"update"})
    /\ last.rerun
    /\ 1 \in DOMAIN groups
    /\ SeqToSet(groups[1]) = DesiredIDs(last.arg)

\* a run that fails adds no member outside the desired set and removes none
\* inside it
FailedRunKeepsDesired ==
    last'.err # Nil =>
        /\ SeqToSet(groups'[1]) \ SeqToSet(groups[1]) \subseteq DesiredIDs(last'.arg)
        /\ SeqToSet(groups[1]) \cap DesiredIDs(last'.arg) \subseteq SeqToSet(groups'[1])

C11_RerunConvergesWhileIdKept ==
    [][FailedRunKeepsDesired]_vars /\ <>(did = 0 \/ Converged)

\* the failing call of the last operation is a call of one of ops
FailedAt(ops) == \E i \in 1..Len(log) : ~log[i].ok /\ log[i].op \in ops

\* C12: resourceUserGroupCreate sets the identifier to the new group's ID once
\* the create call has succeeded, before any translation or add: when the
\* translation or an add then fails, create returns the error, the group is
\* still in the remote store, no delete was issued and the identifier is the
\* group's; when the create call itself fails, the identifier is not set and
\* no translation or add call is made
C12_NoRollbackOnCreate ==
    last.op = "create" =>
        /\ log # <<>>
        /\ log[1].op = "POST"
        /\ log[1].ok /\ FailedAt({"SEARCH_EMAIL", "add"}) =>
              /\ last.err # Nil
              /\ did # 0
              /\ did = log[1].arg
              /\ did \in DOMAIN groups
              /\ \A i \in 1..Len(log) : log[i].op # "DELETE"
              /\ ~log[Len(log)].ok
        /\ ~log[1].ok =>
              /\ last.err # Nil
              /\ did = 0
              /\ groups = <<>>
              /\ Len(log) = 1

\* a create whose second add has failed: the group is there with one member
C12_Witness ==
    /\ last.op = "create"
    /\ last.err # Nil
    /\ log[1].ok
    /\ log[Len(log)].op = "add"
    /\ ~log[Len(log)].ok
    /\ did \in DOMAIN groups
    /\ Len(groups[did]) = 1

\* a create whose create call has failed
C12_WitnessCreateFails ==
    /\ last.op = "create"
    /\ ~log[1].ok
    /\ last.arg # <<>>

====
